---- MODULE Spec2Model ----
(***************************************************************************)
(* Model of the pptx2pdf service (src/app.py, src/libreoffice.py): the     *)
(* three converting endpoints, the temporary-file lifecycle, the converter *)
(* invocation and the downstream proxy with its field-name fallback.       *)
(*                                                                         *)
(* Text values (file names, URLs, query keys) are sequences of one-letter  *)
(* strings, so that suffix extraction, lower-casing and prefix tests are   *)
(* computed the way the Python code computes them.                         *)
(***************************************************************************)
EXTENDS Integers, Sequences, FiniteSets, TLC

\* ------------------------------------------------------------------------
\* Bounds of the model
\* ------------------------------------------------------------------------
\* number of requests that may be in flight at once
NumReq == 2
\* number of distinct paths in the specification of _cleanup_paths
PoolSize == 3
\* most paths passed to one call in the specification of _cleanup_paths
MaxArgs == 2

Reqs == 1..NumReq

\* ------------------------------------------------------------------------
\* Python values
\* ------------------------------------------------------------------------
\* Python's None for an Optional[str]; distinct from every text value,
\* whose elements are single letters
None == <<"<None>">>

\* truthiness of an Optional[str]: None and "" are falsy
Truthy(x) == x # None /\ x # <<>>

\* Python's `a or b`
Or(a, b) == IF Truthy(a) THEN a ELSE b

\* str.startswith
StartsWith(s, p) == Len(s) >= Len(p) /\ SubSeq(s, 1, Len(p)) = p

\* str.rfind for a single letter, 1-based; 0 when the letter does not occur
RFind(s, c) ==
    IF \E i \in 1..Len(s) : s[i] = c
    THEN CHOOSE i \in 1..Len(s) : s[i] = c /\ \A j \in (i+1)..Len(s) : s[j] # c
    ELSE 0

LowerChar(c) ==
    CASE c = "A" -> "a" [] c = "H" -> "h" [] c = "P" -> "p"
      [] c = "T" -> "t" [] c = "X" -> "x" [] OTHER -> c

\* str.lower
Lower(s) == [i \in 1..Len(s) |-> LowerChar(s[i])]

\* pathlib: trailing separators do not make a component
RECURSIVE StripSlashes(_)
StripSlashes(s) ==
    IF s # <<>> /\ s[Len(s)] = "/" THEN StripSlashes(SubSeq(s, 1, Len(s) - 1)) ELSE s

\* Path(s).name: the final path component
PathName(s) ==
    LET t == StripSlashes(s)
        i == RFind(t, "/")
    IN  SubSeq(t, i + 1, Len(t))

\* Path(s).suffix: from the last dot of the name, unless the dot is the
\* first or the last letter of the name
PathSuffix(s) ==
    LET n == PathName(s)
        i == RFind(n, ".")
    IN  IF 1 < i /\ i < Len(n) THEN SubSeq(n, i, Len(n)) ELSE <<>>

\* Path(s).stem: the name without its suffix
PathStem(s) ==
    LET n == PathName(s)
    IN  SubSeq(n, 1, Len(n) - Len(PathSuffix(s)))

EXT_PPT  == <<".", "p", "p", "t">>
EXT_PPTX == <<".", "p", "p", "t", "x">>
EXT_PDF  == <<".", "p", "d", "f">>
ALLOWED_EXT_with_pdf == {EXT_PPT, EXT_PPTX, EXT_PDF}

\* {".ppt", ".pptx"}
ALLOWED_EXT == {EXT_PPT, EXT_PPTX}

\* _safe_ext
safe_ext(filename) == Lower(PathSuffix(filename))

\* ------------------------------------------------------------------------
\* Destination URL (app.py)
\* ------------------------------------------------------------------------
HTTP_PREFIX  == <<"h", "t", "t", "p", ":", "/", "/">>
HTTPS_PREFIX == <<"h", "t", "t", "p", "s", ":", "/", "/">>

\* "http://10.81.194.110:31007/file_parse"
DEFAULT_PARSER_URL ==
    <<"h", "t", "t", "p", ":", "/", "/", "1", "0", ".", "8", "1", ".", "1", "9", "4", ".", "1", "1", "0", ":", "3", "1", "0", "0", "7", "/", "f", "i", "l", "e", "_", "p", "a", "r", "s", "e">>

\* the environment the process is started with, in the specification where
\* the environment changes afterwards
StartupEnv ==
    [PARSER_URL |-> None, PARSE_URL |-> None,
     LIBREOFFICE_BIN |-> None, LIBREOFFICE_PATH |-> None]

effective_parser_url_at_startup(e) ==
    Or(Or(StartupEnv.PARSER_URL, StartupEnv.PARSE_URL), DEFAULT_PARSER_URL)

\* _effective_parser_url: os.getenv("PARSER_URL") or os.getenv("PARSE_URL"),
\* else the hardcoded address; e is the process environment
effective_parser_url(e) == Or(Or(e.PARSER_URL, e.PARSE_URL), DEFAULT_PARSER_URL)

resolve_parser_url_header_first(query_override, header_override, e) ==
    LET url == Or(Or(header_override, query_override), effective_parser_url(e))
    IN  IF StartsWith(url, HTTP_PREFIX) \/ StartsWith(url, HTTPS_PREFIX)
        THEN [ok |-> TRUE, url |-> url]
        ELSE [ok |-> FALSE, url |-> url]

resolve_parser_url_unchecked(query_override, header_override, e) ==
    [ok |-> TRUE, url |-> Or(Or(query_override, header_override), effective_parser_url(e))]

\* _resolve_parser_url: ok = FALSE stands for the HTTPException(400)
resolve_parser_url(query_override, header_override, e) ==
    LET url == Or(Or(query_override, header_override), effective_parser_url(e))
    IN  IF StartsWith(url, HTTP_PREFIX) \/ StartsWith(url, HTTPS_PREFIX)
        THEN [ok |-> TRUE, url |-> url]
        ELSE [ok |-> FALSE, url |-> url]

\* ------------------------------------------------------------------------
\* Reserved-prefix query parameters (app.py)
\* ------------------------------------------------------------------------
\* "parser_query_"
PARSER_QUERY_PREFIX == <<"p", "a", "r", "s", "e", "r", "_", "q", "u", "e", "r", "y", "_">>

\* dict assignment params[k] = v: a dict is a set of <<key, value>> pairs
\* with at most one pair per key
DictSet(d, k, v) == {kv \in d : kv[1] # k} \cup {<<k, v>>}

\* _parser_query_params over request.query_params.multi_items(), a sequence
\* of <<key, value>> in query-string order; ok = FALSE stands for the
\* HTTPException(400) raised at the first key that is the bare prefix
RECURSIVE parser_query_loop(_, _)
parser_query_loop(items, params) ==
    IF items = <<>> THEN [ok |-> TRUE, params |-> params]
    ELSE LET key     == Head(items)[1]
             value   == Head(items)[2]
             trimmed == SubSeq(key, Len(PARSER_QUERY_PREFIX) + 1, Len(key))
         IN  IF ~StartsWith(key, PARSER_QUERY_PREFIX)
             THEN parser_query_loop(Tail(items), params)
             ELSE IF trimmed = <<>>
                  THEN [ok |-> FALSE, params |-> {}]
                  ELSE parser_query_loop(Tail(items), DictSet(params, trimmed, value))

parser_query_params(items) == parser_query_loop(items, {})

\* ------------------------------------------------------------------------
\* Form fields sent to the downstream parser (app.py)
\* ------------------------------------------------------------------------
\* str(b).lower() of a bool
BoolStr(b) == IF b THEN "true" ELSE "false"

\* str(n) of an int: its decimal digits, with a sign
RECURSIVE NatStr(_)
NatStr(n) ==
    LET d == <<"0", "1", "2", "3", "4", "5", "6", "7", "8", "9">>
    IN  IF n < 10 THEN <<d[n + 1]>> ELSE NatStr(n \div 10) \o <<d[(n % 10) + 1]>>

IntStr(n) == IF n < 0 THEN <<"-">> \o NatStr(0 - n) ELSE NatStr(n)

\* form_data of convert_and_parse; t holds the handler's tuning parameters
form_data(t) ==
    [ return_middle_json  |-> BoolStr(t.return_middle_json),
      return_model_output |-> BoolStr(t.return_model_output),
      return_md           |-> BoolStr(t.return_md),
      return_images       |-> BoolStr(t.return_images),
      end_page_id         |-> IntStr(t.end_page_id),
      parse_method        |-> t.parse_method,
      start_page_id       |-> IntStr(t.start_page_id),
      lang_list           |-> t.lang_list,
      output_dir          |-> t.output_dir,
      server_url          |-> t.server_url,
      return_content_list |-> BoolStr(t.return_content_list),
      backend             |-> t.backend,
      table_enable        |-> BoolStr(t.table_enable),
      formula_enable      |-> BoolStr(t.formula_enable) ]

\* the declared defaults of the tuning parameters
DefaultTuning ==
    [ return_middle_json  |-> FALSE,
      return_model_output |-> FALSE,
      return_md           |-> TRUE,
      return_images       |-> FALSE,
      end_page_id         |-> 99999,
      parse_method        |-> "auto",
      start_page_id       |-> 0,
      lang_list           |-> "ch",
      output_dir          |-> "./output",
      server_url          |-> "string",
      return_content_list |-> FALSE,
      backend             |-> "pipeline",
      table_enable        |-> TRUE,
      formula_enable      |-> TRUE ]

\* ------------------------------------------------------------------------
\* Executable locator and converter (libreoffice.py)
\* ------------------------------------------------------------------------
\* executable paths are opaque: a non-empty text of one element
MAC_DEFAULT == <<"/Applications/LibreOffice.app/Contents/MacOS/soffice">>
MAC_ALT     == <<"/Applications/LibreOffice.app/Contents/MacOS/soffice-bin">>

resolve_libreoffice_path_unchecked_override(e, h) ==
    LET env_override == Or(e.LIBREOFFICE_BIN, e.LIBREOFFICE_PATH)
    IN  IF Truthy(env_override)
        THEN [ok |-> TRUE, path |-> env_override]
        ELSE IF Truthy(h.which.libreoffice)
        THEN [ok |-> TRUE, path |-> h.which.libreoffice]
        ELSE IF Truthy(h.which.soffice)
        THEN [ok |-> TRUE, path |-> h.which.soffice]
        ELSE IF MAC_DEFAULT \in h.disk
        THEN [ok |-> TRUE, path |-> MAC_DEFAULT]
        ELSE IF MAC_ALT \in h.disk
        THEN [ok |-> TRUE, path |-> MAC_ALT]
        ELSE [ok |-> FALSE, path |-> None]

\* resolve_libreoffice_path; e is the process environment, h the host:
\* h.disk the executables present on disk, h.which the result of
\* shutil.which for a name (None when the search path has no hit).
\* ok = FALSE stands for FileNotFoundError
resolve_libreoffice_path(e, h) ==
    LET env_override == Or(e.LIBREOFFICE_BIN, e.LIBREOFFICE_PATH)
    IN  IF Truthy(env_override) /\ env_override \in h.disk
        THEN [ok |-> TRUE, path |-> env_override]
        ELSE IF Truthy(h.which.libreoffice)
        THEN [ok |-> TRUE, path |-> h.which.libreoffice]
        ELSE IF Truthy(h.which.soffice)
        THEN [ok |-> TRUE, path |-> h.which.soffice]
        ELSE IF MAC_DEFAULT \in h.disk
        THEN [ok |-> TRUE, path |-> MAC_DEFAULT]
        ELSE IF MAC_ALT \in h.disk
        THEN [ok |-> TRUE, path |-> MAC_ALT]
        ELSE [ok |-> FALSE, path |-> None]

\* output_dir / (input_path.stem + '.pdf'); a stored path is its directory,
\* the stem of its name and its suffix
expected_pdf(input_path, output_dir) ==
    [dir |-> output_dir, stem |-> input_path.stem, ext |-> EXT_PDF]

\* the files after the subprocess ran: a run is its exit status and whether
\* it wrote <stem>.pdf into the output directory
fs_after_run(files, input_path, output_dir, run) ==
    IF run.wrote THEN files \cup {expected_pdf(input_path, output_dir)} ELSE files

convert_pptx_to_pdf_unverified(input_path, output_dir, e, h, run, files) ==
    LET lo  == resolve_libreoffice_path(e, h)
        pdf == expected_pdf(input_path, output_dir)
    IN  IF ~lo.ok THEN [ok |-> FALSE, exc |-> "FileNotFoundError", path |-> pdf]
        ELSE IF run.exit # 0 THEN [ok |-> FALSE, exc |-> "CalledProcessError", path |-> pdf]
        ELSE [ok |-> TRUE, exc |-> "", path |-> pdf]

\* convert_pptx_to_pdf: the value returned or the exception raised, given
\* the files as the subprocess left them
convert_pptx_to_pdf(input_path, output_dir, e, h, run, files) ==
    LET lo  == resolve_libreoffice_path(e, h)
        pdf == expected_pdf(input_path, output_dir)
    IN  IF ~lo.ok THEN [ok |-> FALSE, exc |-> "FileNotFoundError", path |-> pdf]
        ELSE IF run.exit # 0 THEN [ok |-> FALSE, exc |-> "CalledProcessError", path |-> pdf]
        ELSE IF pdf \notin fs_after_run(files, input_path, output_dir, run)
        THEN [ok |-> FALSE, exc |-> "FileNotFoundError", path |-> pdf]
        ELSE [ok |-> TRUE, exc |-> "", path |-> pdf]

\* ------------------------------------------------------------------------
\* Inputs
\* ------------------------------------------------------------------------
\* File names of uploads (UploadFile.filename)
NAME_PPTX     == <<"a", ".", "p", "p", "t", "x">>
NAME_UPPER    == <<"A", ".", "P", "P", "T">>
NAME_NESTED   == <<"d", "/", "b", ".", "p", "p", "t">>
NAME_PDF      == <<"a", ".", "p", "d", "f">>
NAME_DOTFILE  == <<".", "p", "p", "t", "x">>
NAME_TRAILDOT == <<"a", ".", "p", "p", "t", ".">>
NAME_NOEXT    == <<"p", "p", "t", "x">>

URL_Q    == <<"h", "t", "t", "p", ":", "/", "/", "q">>
URL_H    == <<"h", "t", "t", "p", "s", ":", "/", "/", "h">>
URL_E1   == <<"h", "t", "t", "p", ":", "/", "/", "e">>
URL_E2   == <<"h", "t", "t", "p", "s", ":", "/", "/", "f">>
URL_FTP  == <<"f", "t", "p", ":", "/", "/", "h", "o", "s", "t">>
URL_CAPS == <<"H", "T", "T", "P", ":", "/", "/", "h">>
URL_BARE == <<"h", "o", "s", "t", "/", "p", "a", "r", "s", "e">>

\* Query keys and values
KEY_BARE  == PARSER_QUERY_PREFIX
KEY_A     == PARSER_QUERY_PREFIX \o <<"a">>
KEY_B     == PARSER_QUERY_PREFIX \o <<"b">>
KEY_PLAIN == <<"a">>
KEY_NEAR  == <<"p", "a", "r", "s", "e", "r", "_", "q", "u", "e", "r", "y">>
VAL_1     == <<"1">>
VAL_2     == <<"2">>

\* A downstream answer: a status and a body; a body is its content (a name
\* and the attempt it answers), whether it is a JSON document, and its
\* length in characters
Body(name, json, len) == [name |-> name, attempt |-> 0, json |-> json, len |-> len]
NoBody == Body("none", FALSE, 0)
Reply(status, body, attempt) ==
    [err |-> FALSE, status |-> status, body |-> [body EXCEPT !.attempt = attempt]]
\* httpx raises instead of returning (unreachable host, timeout)
TransportError == [err |-> TRUE, status |-> 0, body |-> NoBody]
NoReply        == [err |-> FALSE, status |-> 0, body |-> NoBody]

\* the tuning parameters of a request that overrides the defaults
OtherTuning ==
    [DefaultTuning EXCEPT !.return_md = FALSE, !.return_images = TRUE,
                          !.end_page_id = 120, !.start_page_id = 7,
                          !.parse_method = "ocr", !.backend = "vlm"]

\* What requests and the downstream service may send, in the specification
\* of one request
Rich ==
    [ endpoints |-> {"convert", "convert_multipart", "convert_and_parse"},
      names     |-> {None, <<>>, NAME_PPTX, NAME_UPPER, NAME_NESTED, NAME_PDF,
                     NAME_DOTFILE, NAME_TRAILDOT, NAME_NOEXT},
      purls     |-> {None, <<>>, URL_Q, URL_FTP},
      xurls     |-> {None, <<>>, URL_H, URL_CAPS},
      items     |-> {<<>>,
                     <<<<KEY_A, VAL_1>>, <<KEY_PLAIN, VAL_2>>>>,
                     <<<<KEY_A, VAL_1>>, <<KEY_A, VAL_2>>>>,
                     <<<<KEY_B, VAL_2>>, <<KEY_BARE, VAL_1>>>>,
                     <<<<KEY_NEAR, VAL_1>>>>},
      tunings   |-> {DefaultTuning, OtherTuning},
      statuses  |-> {200, 299, 300, 399, 400, 503},
      bodies    |-> {Body("doc", TRUE, 40), Body("page", FALSE, 1000),
                     Body("page", FALSE, 1001)} ]

\* ... and in the specification of concurrent requests
Few ==
    [ endpoints |-> {"convert", "convert_multipart", "convert_and_parse"},
      names     |-> {NAME_PPTX, NAME_PDF},
      purls     |-> {None, URL_FTP},
      xurls     |-> {None},
      items     |-> {<<>>},
      tunings   |-> {DefaultTuning},
      statuses  |-> {200, 400},
      bodies    |-> {Body("doc", TRUE, 40)} ]

\* the outcomes of the converter subprocess: a non-zero exit leaves no PDF
Runs == {[exit |-> 0, wrote |-> TRUE], [exit |-> 0, wrote |-> FALSE],
         [exit |-> 1, wrote |-> FALSE]}

\* the outcomes of storing the upload: input_path.open fails (no file), or
\* the copy fails after the file was created, or the upload is stored
Saves == {"ok", "open_failed", "copy_failed"}

\* uuid.uuid4().hex: a stem is drawn fresh from a pool
Stems == 1..NumReq

uuid4_hex_repeating(drawn) == Stems

\* the values uuid.uuid4().hex may return once the stems in drawn were
\* returned: a version-4 UUID does not repeat
uuid4_hex(drawn) == Stems \ drawn

UPLOAD_DIR == "uploads"
OUTPUT_DIR == "outputs"

LO_BIN == <<"/usr/bin/libreoffice">>
SO_BIN  == <<"/usr/bin/soffice">>
ALT_BIN == <<"/opt/libreoffice/program/soffice">>
GONE_BIN == <<"/opt/removed/soffice">>

\* ------------------------------------------------------------------------
\* State
\* ------------------------------------------------------------------------
VARIABLES
    env,       \* the process environment (os.getenv)
    host,      \* the executables installed on the host
    fs,        \* the files present in the uploads and outputs directories
    used,      \* the stems uuid4 has produced
    loop,      \* the request whose handler runs on the event-loop thread, or 0
    pc,        \* pc[r]: where request r's handling stands
    rq,        \* rq[r]: the request as the handler has read it
    loc,       \* loc[r]: the handler's local variables
    posts,     \* posts[r]: the POSTs sent downstream for r, in order
    out,       \* out[r]: the response returned to the caller
    bg,        \* bg[r]: the background tasks registered (tuples of paths)
    created,   \* created[r]: the files r's handling wrote
    removals,  \* the unlink calls performed: path, request, cleanup step
    locked,    \* the paths whose unlink raises (permissions, busy file)
    call       \* the latest direct call of _cleanup_paths and its outcome

vars == <<env, host, fs, used, loop, pc, rq, loc, posts, out, bg, created, removals,
          locked, call>>

NoPath == [dir |-> "", stem |-> 0, ext |-> <<>>]
NoPayload == [name |-> "none", attempt |-> 0]
NoOut  == [status |-> 0, kind |-> "none", detail |-> "", payload |-> NoPayload,
           upstream |-> 0, snippet |-> [of |-> NoBody, len |-> 0],
           file |-> NoPath, name |-> <<>>]

\* read: the parts of the request the handler has read so far
NoRq  == [endpoint |-> "", filename |-> None, parser_url |-> None,
          x_parser_url |-> None, items |-> <<>>, tuning |-> DefaultTuning,
          read |-> {}]
\* exe: the executable the converter located; run: how its subprocess ended;
\* save: how storing the upload ended
NoRun == [exit |-> 0, wrote |-> FALSE]
NoLoc == [ext |-> <<>>, input_path |-> NoPath, pdf_path |-> NoPath,
          conv |-> [ok |-> FALSE, exc |-> "", path |-> NoPath],
          exe |-> None, run |-> NoRun, save |-> "",
          download_name |-> <<>>, target_url |-> None, params |-> {},
          form |-> form_data(DefaultTuning),
          resp |-> NoReply, resp2 |-> NoReply, sel |-> NoReply]

NoCall == [made |-> FALSE, paths |-> <<>>, before |-> {}, raised |-> FALSE,
           repeated |-> FALSE]

\* the handlers run on a host where every unlink of an existing file succeeds
InitCommon ==
    /\ locked = {}
    /\ call = NoCall
    /\ fs = {}
    /\ used = {}
    /\ loop = 0
    /\ pc = [r \in Reqs |-> "idle"]
    /\ rq = [r \in Reqs |-> NoRq]
    /\ loc = [r \in Reqs |-> NoLoc]
    /\ posts = [r \in Reqs |-> <<>>]
    /\ out = [r \in Reqs |-> NoOut]
    /\ bg = [r \in Reqs |-> <<>>]
    /\ created = [r \in Reqs |-> {}]
    /\ removals = {}

Env(parser_url, parse_url) ==
    [PARSER_URL |-> parser_url, PARSE_URL |-> parse_url,
     LIBREOFFICE_BIN |-> None, LIBREOFFICE_PATH |-> None]

Host(present) ==
    [disk  |-> IF present THEN {LO_BIN} ELSE {},
     which |-> [libreoffice |-> IF present THEN LO_BIN ELSE None, soffice |-> None]]

Init ==
    /\ InitCommon
    /\ \E a \in {None, URL_E1}, b \in {None, URL_E2, URL_BARE} : env = Env(a, b)
    /\ \E p \in BOOLEAN : host = Host(p)

InitConc ==
    /\ InitCommon
    /\ env = Env(None, None)
    /\ host = Host(TRUE)

\* ------------------------------------------------------------------------
\* Helpers of the handlers
\* ------------------------------------------------------------------------
IsAsyncConvert(r) == rq[r].endpoint = "convert_and_parse"

cleanup_loop_unguarded(files, paths, undeletable) ==
    IF paths = <<>> THEN [files |-> files, raised |-> FALSE]
    ELSE IF \E i \in 1..Len(paths) : paths[i] \in files \cap undeletable
    THEN LET k == CHOOSE i \in 1..Len(paths) :
                      /\ paths[i] \in files \cap undeletable
                      /\ \A j \in 1..(i-1) : paths[j] \notin files \cap undeletable
         IN  [files |-> files \ {paths[j] : j \in 1..(k-1)}, raised |-> TRUE]
    ELSE [files |-> files \ {paths[j] : j \in 1..Len(paths)}, raised |-> FALSE]

\* _cleanup_paths(*paths), lines 48-55: for each path in turn, unlink it if
\* it exists; an unlink that raises (the path is in undeletable) is caught
\* inside the loop and the loop goes on. raised tells whether an exception
\* leaves the function
RECURSIVE cleanup_loop(_, _, _)
cleanup_loop(files, paths, undeletable) ==
    IF paths = <<>> THEN [files |-> files, raised |-> FALSE]
    ELSE LET p == Head(paths)
         IN  IF p \in files /\ p \notin undeletable
             THEN cleanup_loop(files \ {p}, Tail(paths), undeletable)
             ELSE cleanup_loop(files, Tail(paths), undeletable)

cleanup_paths_first_only(files, paths) ==
    cleanup_loop(files, SubSeq(paths, 1, 1), locked).files

\* the files left by _cleanup_paths(*paths)
cleanup_paths(files, paths) == cleanup_loop(files, paths, locked).files

\* the unlink calls of _cleanup_paths(*paths) that removed a file
Unlinked(files, paths, r, step) ==
    {[path |-> p, req |-> r, step |-> step] : p \in files \ cleanup_paths(files, paths)}

Raise_as_internal_error(r, status, detail) ==
    /\ out' = [out EXCEPT ![r] = [NoOut EXCEPT !.status = 500, !.kind = "error",
                                               !.detail = detail]]
    /\ pc' = [pc EXCEPT ![r] = "done"]
    /\ loop' = 0

\* raise HTTPException(status, detail): the handler ends, nothing deferred runs
Raise(r, status, detail) ==
    /\ out' = [out EXCEPT ![r] = [NoOut EXCEPT !.status = status, !.kind = "error",
                                               !.detail = detail]]
    /\ pc' = [pc EXCEPT ![r] = "done"]
    /\ loop' = 0

\* ------------------------------------------------------------------------
\* The handlers, one action per step between two observable points
\* ------------------------------------------------------------------------
\* Lines 117-122, 166-171, 241-246: the handler starts on the event loop and
\* checks the upload's file name and extension
Validate(r, I) ==
    /\ pc[r] = "idle"
    /\ loop = 0
    /\ \E ep \in I.endpoints, fn \in I.names :
        /\ rq' = [rq EXCEPT ![r].endpoint = ep, ![r].filename = fn,
                            ![r].read = @ \cup {"file"}]
        /\ IF ~Truthy(fn)
           THEN /\ Raise(r, 400, "No file uploaded")
                /\ UNCHANGED loc
           ELSE IF safe_ext(fn) \notin ALLOWED_EXT
           THEN /\ Raise(r, 400, "Only .ppt or .pptx files are supported")
                /\ UNCHANGED loc
           ELSE /\ loc' = [loc EXCEPT ![r].ext = safe_ext(fn)]
                /\ pc' = [pc EXCEPT ![r] = "validated"]
                /\ loop' = r
                /\ UNCHANGED out
    /\ UNCHANGED <<locked, call, env, host, fs, used, posts, bg, created, removals>>

\* Lines 124-132, 173-180, 248-255: a unique stem is drawn and the upload is
\* written under it
Store(r) ==
    /\ pc[r] = "validated"
    /\ loop = r
    /\ \E stem \in uuid4_hex(used), save \in Saves :
        LET input_path == [dir |-> UPLOAD_DIR, stem |-> stem, ext |-> loc[r].ext]
        IN  /\ used' = used \cup {stem}
            /\ loc' = [loc EXCEPT ![r].input_path = input_path, ![r].save = save]
            /\ IF save = "open_failed"
               THEN UNCHANGED <<fs, created>>
               ELSE /\ fs' = fs \cup {input_path}
                    /\ created' = [created EXCEPT ![r] = @ \cup {input_path}]
            /\ IF save = "ok"
               THEN /\ pc' = [pc EXCEPT ![r] = "stored"]
                    /\ UNCHANGED <<out, loop>>
               ELSE Raise(r, 500, "Failed to save upload")
    /\ UNCHANGED <<locked, call, env, host, rq, posts, bg, removals>>

\* Lines 136, 183, 260: the converter is called; /convert_and_parse hands it
\* to the default executor and awaits, the other two call it in the handler
StartConvert(r) ==
    /\ pc[r] = "stored"
    /\ loop = r
    /\ pc' = [pc EXCEPT ![r] = "converting"]
    /\ loop' = IF IsAsyncConvert(r) THEN 0 ELSE r
    /\ UNCHANGED <<locked, call, env, host, fs, used, rq, loc, posts, out, bg, created, removals>>

\* libreoffice.py 52-79: convert_pptx_to_pdf runs to its return or raise
ConvertRun(r) ==
    /\ pc[r] = "converting"
    /\ \E run \in Runs :
        LET located == resolve_libreoffice_path(env, host).ok
            files   == IF located
                       THEN fs_after_run(fs, loc[r].input_path, OUTPUT_DIR, run)
                       ELSE fs
        IN  /\ fs' = files
            /\ created' = [created EXCEPT ![r] = @ \cup (files \ fs)]
            /\ loc' = [loc EXCEPT ![r].conv =
                          convert_pptx_to_pdf(loc[r].input_path, OUTPUT_DIR,
                                              env, host, run, fs),
                                   ![r].exe = resolve_libreoffice_path(env, host).path,
                                   ![r].run = IF located THEN run ELSE NoRun]
    /\ pc' = [pc EXCEPT ![r] = "conv_exit"]
    /\ UNCHANGED <<locked, call, env, host, used, loop, rq, posts, out, bg, removals>>

\* Lines 137-147, 184-190, 261-270: the handler takes the converter's result
AfterConvert(r) ==
    /\ pc[r] = "conv_exit"
    /\ loop = IF IsAsyncConvert(r) THEN 0 ELSE r
    /\ IF loc[r].conv.ok
       THEN /\ loc' = [loc EXCEPT ![r].pdf_path = loc[r].conv.path,
                                  ![r].download_name = PathStem(rq[r].filename) \o EXT_PDF]
            /\ pc' = [pc EXCEPT ![r] = "converted"]
            /\ loop' = r
            /\ UNCHANGED <<fs, out, removals>>
       ELSE /\ fs' = cleanup_paths(fs, <<loc[r].input_path>>)
            /\ removals' = removals \cup Unlinked(fs, <<loc[r].input_path>>, r, "on_error")
            /\ Raise(r, 500, IF rq[r].endpoint = "convert"
                                /\ loc[r].conv.exc = "FileNotFoundError"
                             THEN "Expected PDF or executable not found"
                             ELSE "Conversion failed")
            /\ UNCHANGED loc
    /\ UNCHANGED <<locked, call, env, host, used, rq, posts, bg, created>>

Respond_eager(r) ==
    /\ pc[r] = "converted"
    /\ ~IsAsyncConvert(r)
    /\ loop = r
    /\ fs' = cleanup_paths(fs, <<loc[r].input_path, loc[r].pdf_path>>)
    /\ removals' = removals \cup
           Unlinked(fs, <<loc[r].input_path, loc[r].pdf_path>>, r, "deferred")
    /\ out' = [out EXCEPT ![r] =
                  [NoOut EXCEPT !.status = 200,
                                !.kind = IF rq[r].endpoint = "convert"
                                         THEN "file" ELSE "multipart",
                                !.file = loc[r].pdf_path,
                                !.name = loc[r].download_name]]
    /\ pc' = [pc EXCEPT ![r] = "sending"]
    /\ loop' = 0
    /\ UNCHANGED <<locked, call, env, host, used, rq, loc, posts, bg, created>>

\* Lines 149-157 and 192-203: the cleanup is registered and the response
\* object returned: the PDF file itself (/convert) or its bytes in a
\* one-field multipart body (/convert_multipart)
Respond(r) ==
    /\ pc[r] = "converted"
    /\ ~IsAsyncConvert(r)
    /\ loop = r
    /\ bg' = [bg EXCEPT ![r] = Append(@, <<loc[r].input_path, loc[r].pdf_path>>)]
    /\ out' = [out EXCEPT ![r] =
                  [NoOut EXCEPT !.status = 200,
                                !.kind = IF rq[r].endpoint = "convert"
                                         THEN "file" ELSE "multipart",
                                !.file = loc[r].pdf_path,
                                !.name = loc[r].download_name]]
    /\ pc' = [pc EXCEPT ![r] = "sending"]
    /\ loop' = 0
    /\ UNCHANGED <<locked, call, env, host, fs, used, rq, loc, posts, created, removals>>

\* The framework transmits the returned response to the caller; a
\* FileResponse reads its file while sending and fails when the file is
\* gone, and then the background tasks are not run
Send(r) ==
    /\ pc[r] = "sending"
    /\ IF out[r].kind = "file" /\ out[r].file \notin fs
       THEN /\ out' = [out EXCEPT ![r].kind = "aborted"]
            /\ pc' = [pc EXCEPT ![r] = "done"]
       ELSE /\ pc' = [pc EXCEPT ![r] = "sent"]
            /\ UNCHANGED out
    /\ UNCHANGED <<locked, call, env, host, fs, used, loop, rq, loc, posts, bg, created, removals>>

\* the arguments of the registered tasks, in the order the tasks run
RECURSIVE AllTasks(_)
AllTasks(tasks) == IF tasks = <<>> THEN <<>> ELSE Head(tasks) \o AllTasks(Tail(tasks))

\* The registered background tasks run after the response was sent:
\* _cleanup_paths(input_path, pdf_path), lines 48-55
Background(r) ==
    /\ pc[r] = "sent"
    /\ LET paths == AllTasks(bg[r])
       IN  /\ fs' = cleanup_paths(fs, paths)
           /\ removals' = removals \cup Unlinked(fs, paths, r, "deferred")
    /\ bg' = [bg EXCEPT ![r] = <<>>]
    /\ pc' = [pc EXCEPT ![r] = "done"]
    /\ UNCHANGED <<locked, call, env, host, used, loop, rq, loc, posts, out, created>>

\* ------------------------------------------------------------------------
\* /convert_and_parse after the conversion
\* ------------------------------------------------------------------------
\* Line 273: the destination is resolved from the query parameter, the
\* header and the environment; the HTTPException of _resolve_parser_url is
\* raised outside the try block of lines 299-353
ResolveUrl(r, I) ==
    /\ pc[r] = "converted"
    /\ IsAsyncConvert(r)
    /\ loop = r
    /\ \E q \in I.purls, h \in I.xurls :
        LET res == resolve_parser_url(q, h, env)
        IN  /\ rq' = [rq EXCEPT ![r].parser_url = q, ![r].x_parser_url = h,
                                ![r].read = @ \cup {"url"}]
            /\ IF res.ok
               THEN /\ loc' = [loc EXCEPT ![r].target_url = res.url]
                    /\ pc' = [pc EXCEPT ![r] = "resolved"]
                    /\ UNCHANGED <<out, loop>>
               ELSE /\ Raise(r, 400, "parser_url must start with http:// or https://")
                    /\ UNCHANGED loc
    /\ UNCHANGED <<locked, call, env, host, fs, used, posts, bg, created, removals>>

\* Lines 277-296: the form fields and the destination query parameters; the
\* HTTPException of _parser_query_params is raised outside the try block
BuildRequest(r, I) ==
    /\ pc[r] = "resolved"
    /\ loop = r
    /\ \E items \in I.items, t \in I.tunings :
        LET res == parser_query_params(items)
        IN  /\ rq' = [rq EXCEPT ![r].items = items, ![r].tuning = t,
                                ![r].read = @ \cup {"query"}]
            /\ IF res.ok
               THEN /\ loc' = [loc EXCEPT ![r].params = res.params,
                                          ![r].form = form_data(t)]
                    /\ pc' = [pc EXCEPT ![r] = "built"]
                    /\ UNCHANGED <<out, loop>>
               ELSE /\ Raise(r, 400, "parser_query_ prefix requires a field name")
                    /\ UNCHANGED loc
    /\ UNCHANGED <<locked, call, env, host, fs, used, posts, bg, created, removals>>

\* client.post(target_url, params=parser_query_params or None, data=form_data,
\* files=[(field, (download_name, f, "application/pdf"))]): an empty dict and
\* None both send no query parameter
Post(r, field) ==
    [url |-> loc[r].target_url, params |-> loc[r].params, form |-> loc[r].form,
     field |-> field, filename |-> loc[r].download_name, file |-> loc[r].pdf_path]

\* Lines 305-313: the first POST, file field `files`; the handler awaits
PostFiles(r) ==
    /\ pc[r] = "built"
    /\ loop = r
    /\ posts' = [posts EXCEPT ![r] = Append(@, Post(r, "files"))]
    /\ pc' = [pc EXCEPT ![r] = "await1"]
    /\ loop' = 0
    /\ UNCHANGED <<locked, call, env, host, fs, used, rq, loc, out, bg, created, removals>>

\* The downstream service answers the first POST, or the transport fails
ReplyFiles(r, I) ==
    /\ pc[r] = "await1"
    /\ \E rep \in {Reply(st, b, 1) :
                       st \in I.statuses, b \in I.bodies} \cup {TransportError} :
        loc' = [loc EXCEPT ![r].resp = rep]
    /\ pc' = [pc EXCEPT ![r] = "got1"]
    /\ UNCHANGED <<locked, call, env, host, fs, used, loop, rq, posts, out, bg, created, removals>>

needs_fallback_from_300(resp) == resp.status >= 300

\* Line 317: the first answer is a rejection
needs_fallback(resp) == resp.status >= 400

select_response_any_second(resp, resp2) == resp2

\* Lines 329-330: a 2xx second answer replaces the first
select_response(resp, resp2) ==
    IF 200 <= resp2.status /\ resp2.status < 300 THEN resp2 ELSE resp

\* Lines 314-326 and 350-353: the handler resumes with the first answer; a
\* status >= 400 sends the second POST, file field `file`
AfterFiles(r) ==
    /\ pc[r] = "got1"
    /\ loop = 0
    /\ IF loc[r].resp.err
       THEN /\ fs' = cleanup_paths(fs, <<loc[r].input_path, loc[r].pdf_path>>)
            /\ removals' = removals \cup
                   Unlinked(fs, <<loc[r].input_path, loc[r].pdf_path>>, r, "on_error")
            /\ Raise(r, 502, "Failed to call parser")
            /\ UNCHANGED <<loc, posts>>
       ELSE IF needs_fallback(loc[r].resp)
       THEN /\ posts' = [posts EXCEPT ![r] = Append(@, Post(r, "file"))]
            /\ pc' = [pc EXCEPT ![r] = "await2"]
            /\ UNCHANGED <<fs, removals, loc, out, loop>>
       ELSE /\ loc' = [loc EXCEPT ![r].sel = loc[r].resp]
            /\ pc' = [pc EXCEPT ![r] = "selected"]
            /\ loop' = r
            /\ UNCHANGED <<fs, removals, posts, out>>
    /\ UNCHANGED <<locked, call, env, host, used, rq, bg, created>>

\* The downstream service answers the second POST, or the transport fails
ReplyFile(r, I) ==
    /\ pc[r] = "await2"
    /\ \E rep \in {Reply(st, b, 2) :
                       st \in I.statuses, b \in I.bodies} \cup {TransportError} :
        loc' = [loc EXCEPT ![r].resp2 = rep]
    /\ pc' = [pc EXCEPT ![r] = "got2"]
    /\ UNCHANGED <<locked, call, env, host, fs, used, loop, rq, posts, out, bg, created, removals>>

\* Lines 327-330 and 350-353: the handler resumes with the second answer
AfterFile(r) ==
    /\ pc[r] = "got2"
    /\ loop = 0
    /\ IF loc[r].resp2.err
       THEN /\ fs' = cleanup_paths(fs, <<loc[r].input_path, loc[r].pdf_path>>)
            /\ removals' = removals \cup
                   Unlinked(fs, <<loc[r].input_path, loc[r].pdf_path>>, r, "on_error")
            /\ Raise(r, 502, "Failed to call parser")
            /\ UNCHANGED loc
       ELSE /\ loc' = [loc EXCEPT ![r].sel = select_response(loc[r].resp, loc[r].resp2)]
            /\ pc' = [pc EXCEPT ![r] = "selected"]
            /\ loop' = r
            /\ UNCHANGED <<fs, removals, out>>
    /\ UNCHANGED <<locked, call, env, host, used, rq, posts, bg, created>>

\* resp.text[:1000]
SNIPPET_LIMIT == 1000

Slice_whole(body, n) == [of |-> body, len |-> body.len]

\* text[:n] of a body: its first n characters, or all of it when shorter
Slice(body, n) == [of |-> body, len |-> IF body.len < n THEN body.len ELSE n]

\* resp.json(): the document the body encodes, or ValueError (ok = FALSE)
Json(body) ==
    IF body.json
    THEN [ok |-> TRUE, payload |-> [name |-> body.name, attempt |-> body.attempt]]
    ELSE [ok |-> FALSE, payload |-> NoPayload]

json_response_errors_as_502(status_code, content) ==
    [NoOut EXCEPT !.status = IF status_code >= 400 THEN 502 ELSE status_code,
                  !.kind = "json", !.payload = content]

\* Line 343: JSONResponse(status_code=resp.status_code, content=payload)
json_response(status_code, content) ==
    [NoOut EXCEPT !.status = status_code, !.kind = "json", !.payload = content]

\* Lines 332-349: the selected answer is decoded and relayed with its
\* status and the cleanup registered, or a 502 is raised and the files are
\* removed by the except HTTPException clause
Relay(r) ==
    /\ pc[r] = "selected"
    /\ loop = r
    /\ IF Json(loc[r].sel.body).ok
       THEN /\ bg' = [bg EXCEPT ![r] = Append(@, <<loc[r].input_path, loc[r].pdf_path>>)]
            /\ out' = [out EXCEPT ![r] =
                          json_response(loc[r].sel.status, Json(loc[r].sel.body).payload)]
            /\ pc' = [pc EXCEPT ![r] = "sending"]
            /\ loop' = 0
            /\ UNCHANGED <<fs, removals>>
       ELSE /\ fs' = cleanup_paths(fs, <<loc[r].input_path, loc[r].pdf_path>>)
            /\ removals' = removals \cup
                   Unlinked(fs, <<loc[r].input_path, loc[r].pdf_path>>, r, "on_error")
            /\ out' = [out EXCEPT ![r] =
                          [NoOut EXCEPT !.status = 502, !.kind = "error",
                                        !.detail = "Downstream returned non-JSON",
                                        !.upstream = loc[r].sel.status,
                                        !.snippet = Slice(loc[r].sel.body, SNIPPET_LIMIT)]]
            /\ pc' = [pc EXCEPT ![r] = "done"]
            /\ loop' = 0
            /\ UNCHANGED bg
    /\ UNCHANGED <<locked, call, env, host, used, rq, loc, posts, created>>

\* ------------------------------------------------------------------------
\* Specifications
\* ------------------------------------------------------------------------
Step(r, I) ==
    \/ Validate(r, I)
    \/ Store(r)
    \/ StartConvert(r)
    \/ ConvertRun(r)
    \/ AfterConvert(r)
    \/ Respond(r)
    \/ Send(r)
    \/ Background(r)
    \/ ResolveUrl(r, I)
    \/ BuildRequest(r, I)
    \/ PostFiles(r)
    \/ ReplyFiles(r, I)
    \/ AfterFiles(r)
    \/ ReplyFile(r, I)
    \/ AfterFile(r)
    \/ Relay(r)

\* one request, with the full range of inputs and downstream answers
Next == Step(1, Rich)

Spec == Init /\ [][Next]_vars

\* NumReq concurrent requests
NextConc == \E r \in Reqs : Step(r, Few)

SpecConc == InitConc /\ [][NextConc]_vars

\* ------------------------------------------------------------------------
\* One request while the process environment changes after startup
\* ------------------------------------------------------------------------
InitEnv ==
    /\ InitCommon
    /\ env = StartupEnv
    /\ host = [disk  |-> {LO_BIN, ALT_BIN},
               which |-> [libreoffice |-> LO_BIN, soffice |-> None]]

\* os.environ is assigned in the running process: the next os.getenv of
\* _effective_parser_url or resolve_libreoffice_path returns the new value
Setenv ==
    /\ \E u \in {None, URL_E1}, b \in {None, ALT_BIN} :
        /\ env' = [StartupEnv EXCEPT !.PARSER_URL = u, !.LIBREOFFICE_BIN = b]
        /\ env' # env
    /\ UNCHANGED <<locked, call, host, fs, used, loop, pc, rq, loc, posts, out, bg,
                   created, removals>>

NextEnv == Step(1, Few) \/ Setenv

SpecEnv == InitEnv /\ [][NextEnv]_vars

\* ------------------------------------------------------------------------
\* One request on any host: the override variables unset, empty, naming an
\* existing or a missing file; either name on the search path or not; any of
\* the fixed install locations present
\* ------------------------------------------------------------------------
Overrides == {None, <<>>, ALT_BIN, GONE_BIN}

InitLocate ==
    /\ InitCommon
    /\ \E b \in Overrides, p \in Overrides :
           env = [PARSER_URL |-> None, PARSE_URL |-> None,
                  LIBREOFFICE_BIN |-> b, LIBREOFFICE_PATH |-> p]
    /\ \E wl \in {None, LO_BIN}, ws \in {None, SO_BIN},
          d \in SUBSET {ALT_BIN, MAC_DEFAULT, MAC_ALT} :
           host = [disk  |-> d \cup ({wl, ws} \ {None}),
                   which |-> [libreoffice |-> wl, soffice |-> ws]]

NextLocate == Step(1, Few)

SpecLocate == InitLocate /\ [][NextLocate]_vars

\* ------------------------------------------------------------------------
\* _cleanup_paths called directly, on any paths, any number of times
\* ------------------------------------------------------------------------
Pool == {[dir |-> UPLOAD_DIR, stem |-> n, ext |-> EXT_PPTX] : n \in 1..PoolSize}

\* the argument tuples of a call: up to MaxArgs paths, repeats allowed
PathArgs == UNION {[1..n -> Pool] : n \in 0..MaxArgs}

\* any files may exist and any of the paths may be undeletable
InitCleanup ==
    /\ locked \in SUBSET Pool
    /\ call = NoCall
    /\ fs \in SUBSET Pool
    /\ used = {}
    /\ loop = 0
    /\ pc = [r \in Reqs |-> "idle"]
    /\ rq = [r \in Reqs |-> NoRq]
    /\ loc = [r \in Reqs |-> NoLoc]
    /\ posts = [r \in Reqs |-> <<>>]
    /\ out = [r \in Reqs |-> NoOut]
    /\ bg = [r \in Reqs |-> <<>>]
    /\ created = [r \in Reqs |-> {}]
    /\ removals = {}
    /\ env = Env(None, None)
    /\ host = Host(TRUE)

\* _cleanup_paths(*paths) is called; repeated tells that the call before it
\* had the same arguments
CallCleanup(paths) ==
    /\ fs' = cleanup_loop(fs, paths, locked).files
    /\ call' = [made |-> TRUE, paths |-> paths, before |-> fs,
                raised |-> cleanup_loop(fs, paths, locked).raised,
                repeated |-> call.made /\ call.paths = paths]
    /\ UNCHANGED <<locked, env, host, used, loop, pc, rq, loc, posts, out, bg,
                   created, removals>>

NextCleanup == \E paths \in PathArgs : CallCleanup(paths)

SpecCleanup == InitCleanup /\ [][NextCleanup]_vars

\* ------------------------------------------------------------------------
\* Properties
\* ------------------------------------------------------------------------
\* the request's handling is over and nothing deferred is left to run
Finished(r) == pc[r] = "done"

\* the unlink calls that removed path p
RemovalsOf(p) == {x \in removals : x.path = p}

\* C1: on every exit path of a request of the three endpoints, every file
\* the request wrote to the uploads or outputs directory is removed exactly
\* once: when the request and its deferred tasks are over, none of its files
\* exists and each was removed by exactly one cleanup step.
ArtifactsRemovedExactlyOnce ==
    \A r \in Reqs :
        Finished(r) =>
            /\ created[r] \cap fs = {}
            /\ \A p \in created[r] : Cardinality(RemovalsOf(p)) = 1

\* the file name is missing, or its extension is, whatever its case,
\* neither .ppt nor .pptx
NotASlideDeck(fn) ==
    \/ fn = None
    \/ fn = <<>>
    \/ Lower(PathSuffix(fn)) \notin {<<".", "p", "p", "t">>, <<".", "p", "p", "t", "x">>}

\* C2: a request whose file has no file name, or a file name whose
\* extension is not .ppt or .pptx (case-insensitively), is answered 400 and
\* nothing was written, converted or posted for it.
BadExtensionRejectedFirst ==
    \A r \in Reqs :
        ("file" \in rq[r].read /\ NotASlideDeck(rq[r].filename)) =>
            /\ pc[r] = "done"
            /\ out[r].status = 400
            /\ created[r] = {}
            /\ loc[r].input_path = NoPath
            /\ loc[r].conv = NoLoc.conv
            /\ posts[r] = <<>>
            /\ bg[r] = <<>>

BadExtensionRejected ==
    \E r \in Reqs :
        /\ rq[r].filename = NAME_PDF
        /\ out[r].status = 400
        /\ fs = {}
        /\ used = {}

\* the handler holds the answer it will decode
HasSelected(r) == loc[r].sel # NoReply

Is2xx(status) == status >= 200 /\ status <= 299

\* C3: when the first POST is answered with a status >= 400 a second POST
\* with file field `file` is made, and the answer kept is the second one if
\* its status is 2xx and the first one otherwise; when the first status is
\* below 400 the first answer is kept. A relayed response carries the kept
\* answer's status and body.
FallbackSelectsAnswer ==
    \A r \in Reqs :
        HasSelected(r) =>
            /\ IF loc[r].resp.status >= 400
               THEN /\ Len(posts[r]) = 2
                    /\ posts[r][2].field = "file"
                    /\ loc[r].resp2.body.attempt = 2
                    /\ IF Is2xx(loc[r].resp2.status)
                       THEN loc[r].sel = loc[r].resp2
                       ELSE loc[r].sel = loc[r].resp
               ELSE /\ Len(posts[r]) = 1
                    /\ loc[r].sel = loc[r].resp
            /\ out[r].kind = "json" =>
                   /\ out[r].status = loc[r].sel.status
                   /\ out[r].payload.name = loc[r].sel.body.name
                   /\ out[r].payload.attempt = loc[r].sel.body.attempt

SecondAnswerRelayed ==
    \E r \in Reqs :
        /\ loc[r].resp.status = 400
        /\ loc[r].resp2.status = 200
        /\ out[r].kind = "json"
        /\ out[r].status = 200
        /\ out[r].payload.attempt = 2

\* C4: at most two POSTs are sent for a request; the first carries the file
\* field `files`; a second exists only if the first was answered with a
\* status >= 400 and equals the first but for its file field, `file`.
AtMostOneFallbackPost ==
    \A r \in Reqs :
        /\ Len(posts[r]) <= 2
        /\ Len(posts[r]) >= 1 => posts[r][1].field = "files"
        /\ Len(posts[r]) = 2 =>
               /\ ~loc[r].resp.err
               /\ loc[r].resp.status >= 400
               /\ posts[r][2].field = "file"
               /\ posts[r][2] = [posts[r][1] EXCEPT !.field = "file"]
        /\ (Len(posts[r]) = 1 /\ pc[r] \notin {"await1", "got1"}) =>
               (loc[r].resp.err \/ loc[r].resp.status < 400)

TwoPostsBothRejected ==
    \E r \in Reqs :
        /\ Len(posts[r]) = 2
        /\ loc[r].resp2.status = 503
        /\ posts[r][1].params # {}
        /\ Finished(r)

\* the first value of a sequence of optional texts that is neither absent
\* nor empty
FirstNonEmpty(seq) ==
    seq[CHOOSE i \in 1..Len(seq) :
            /\ seq[i] # None /\ Len(seq[i]) > 0
            /\ \A j \in 1..(i-1) : seq[j] = None \/ Len(seq[j]) = 0]

\* the candidates for the destination of request r, in order of precedence
Candidates(r) ==
    <<rq[r].parser_url, rq[r].x_parser_url, env.PARSER_URL, env.PARSE_URL,
      DEFAULT_PARSER_URL>>

\* C5: the destination URL used is the first non-empty value among the
\* parser_url query parameter, the X-Parser-Url header, the environment's
\* URL and the hardcoded default.
DestinationPrecedence ==
    \A r \in Reqs :
        /\ loc[r].target_url # None => loc[r].target_url = FirstNonEmpty(Candidates(r))
        /\ \A i \in 1..Len(posts[r]) : posts[r][i].url = FirstNonEmpty(Candidates(r))

HeaderBeatsEnvironment ==
    \E r \in Reqs :
        /\ rq[r].parser_url = <<>>
        /\ rq[r].x_parser_url = URL_H
        /\ env.PARSER_URL = URL_E1
        /\ Len(posts[r]) >= 1
        /\ posts[r][1].url = URL_H

\* C6: when the kept downstream body is not JSON the caller gets a 502
\* whose detail holds the downstream status and at most the first 1000
\* characters of the downstream body, and no JSON payload.
NonJsonIsGatewayError ==
    \A r \in Reqs :
        (HasSelected(r) /\ ~loc[r].sel.body.json /\ pc[r] # "selected") =>
            /\ pc[r] = "done"
            /\ out[r].status = 502
            /\ out[r].kind = "error"
            /\ out[r].upstream = loc[r].sel.status
            /\ out[r].snippet.of = loc[r].sel.body
            /\ out[r].snippet.len <= 1000
            /\ out[r].snippet.len <= loc[r].sel.body.len
            /\ (loc[r].sel.body.len <= 1000 => out[r].snippet.len = loc[r].sel.body.len)
            /\ out[r].payload = NoPayload

LongTextBodyTruncated ==
    \E r \in Reqs :
        /\ HasSelected(r)
        /\ loc[r].sel.body.len = 1001
        /\ out[r].status = 502
        /\ out[r].snippet.len = 1000
        /\ out[r].upstream = 503

\* C7: when the kept downstream body is JSON the caller's response carries
\* that document and the kept answer's status, also when the status is
\* >= 400.
JsonRelayedWithStatus ==
    \A r \in Reqs :
        (HasSelected(r) /\ loc[r].sel.body.json /\ pc[r] # "selected") =>
            /\ out[r].kind = "json"
            /\ out[r].status = loc[r].sel.status
            /\ out[r].payload = [name |-> loc[r].sel.body.name,
                                 attempt |-> loc[r].sel.body.attempt]

JsonErrorRelayed ==
    \E r \in Reqs :
        /\ Len(posts[r]) = 2
        /\ loc[r].resp.status = 503
        /\ loc[r].resp2.status = 400
        /\ out[r].kind = "json"
        /\ out[r].status = 503
        /\ out[r].payload.attempt = 1

GoodScheme(url) == StartsWith(url, HTTP_PREFIX) \/ StartsWith(url, HTTPS_PREFIX)

\* C8: a resolved destination that starts with neither http:// nor
\* https:// ends the request with a 400, and no POST is made for it.
BadSchemeRejectedBeforePost ==
    \A r \in Reqs :
        ("url" \in rq[r].read /\ ~GoodScheme(FirstNonEmpty(Candidates(r)))) =>
            /\ pc[r] = "done"
            /\ out[r].status = 400
            /\ posts[r] = <<>>
            /\ loc[r].target_url = None

FtpDestinationRejected ==
    \E r \in Reqs :
        /\ "url" \in rq[r].read
        /\ rq[r].parser_url = URL_FTP
        /\ out[r].status = 400
        /\ posts[r] = <<>>

\* the inbound query items whose key carries the reserved prefix
Prefixed(items) ==
    {items[i] : i \in {j \in 1..Len(items) : StartsWith(items[j][1], PARSER_QUERY_PREFIX)}}

\* C9: a query key that is exactly the reserved prefix ends the request
\* with a 400 and no POST; otherwise every query item with the prefix is
\* forwarded with the prefix stripped and its value unchanged, and no other
\* query item is forwarded.
PrefixedQueryForwarded ==
    \A r \in Reqs :
        "query" \in rq[r].read =>
            IF \E kv \in Prefixed(rq[r].items) : kv[1] = PARSER_QUERY_PREFIX
            THEN /\ pc[r] = "done"
                 /\ out[r].status = 400
                 /\ posts[r] = <<>>
            ELSE /\ loc[r].params =
                        {<<SubSeq(kv[1], Len(PARSER_QUERY_PREFIX) + 1, Len(kv[1])), kv[2]>> :
                             kv \in Prefixed(rq[r].items)}
                 /\ \A i \in 1..Len(posts[r]) : posts[r][i].params = loc[r].params

\* C10: the converter call of every converting endpoint runs off the
\* event-loop thread: while a request's conversion is in progress the event
\* loop is not held by that request, so other requests can be served.
ConversionOffEventLoop ==
    \A r \in Reqs : pc[r] \in {"converting", "conv_exit"} => loop # r

\* the paths request r's handler holds in its local variables
PathsOf(r) == {loc[r].input_path, loc[r].pdf_path, loc[r].conv.path} \ {NoPath}

\* C11: concurrent requests never share a path of the uploads or outputs
\* directory: the upload and PDF paths of two requests differ, no file is
\* written by two requests, and a cleanup step of one request only removes
\* files that request wrote.
RequestsNeverSharePaths ==
    /\ \A r \in Reqs : \A o \in Reqs \ {r} :
           /\ PathsOf(r) \cap PathsOf(o) = {}
           /\ created[r] \cap created[o] = {}
    /\ \A x \in removals : x.path \in created[x.req]
    /\ \A r \in Reqs : \A i \in DOMAIN bg[r] : \A j \in 1..2 :
           \A o \in Reqs \ {r} : bg[r][i][j] \notin created[o]

CleanupSparesOtherRequest ==
    \E r \in Reqs : \E o \in Reqs \ {r} :
        /\ pc[r] = "done"
        /\ \E x \in removals : x.req = r /\ x.step = "deferred"
        /\ pc[o] = "sending"
        /\ loc[o].input_path \in fs
        /\ loc[o].pdf_path \in fs

\* the request was answered on a success path
Succeeded(r) == out[r].kind \in {"file", "multipart", "json"}

\* the unlink calls made for request r
RemovalsBy(r) == {x \in removals : x.req = r}

\* C12: on every success path the uploaded file and the PDF are removed
\* only after the response was transmitted: both exist while the response is
\* produced and sent, with one cleanup registered, and once the request is
\* over that cleanup has run once and removed both.
CleanupOnlyAfterResponseSent ==
    \A r \in Reqs :
        Succeeded(r) =>
            /\ pc[r] \in {"sending", "sent", "done"}
            /\ pc[r] \in {"sending", "sent"} =>
                   /\ loc[r].input_path \in fs
                   /\ loc[r].pdf_path \in fs
                   /\ bg[r] = <<<<loc[r].input_path, loc[r].pdf_path>>>>
                   /\ RemovalsBy(r) = {}
            /\ pc[r] = "done" =>
                   /\ bg[r] = <<>>
                   /\ loc[r].input_path \notin fs
                   /\ loc[r].pdf_path \notin fs
                   /\ RemovalsBy(r) =
                          {[path |-> p, req |-> r, step |-> "deferred"] :
                               p \in {loc[r].input_path, loc[r].pdf_path}}

FileSentThenCleaned ==
    \E r \in Reqs :
        /\ out[r].kind = "file"
        /\ pc[r] = "done"
        /\ Cardinality(RemovalsBy(r)) = 2
        /\ fs = {}

\* the paths passed to the latest call of _cleanup_paths
Args == {call.paths[i] : i \in 1..Len(call.paths)}

\* C13: _cleanup_paths never raises, whether its paths exist, were already
\* deleted, never existed or cannot be deleted; a failed deletion does not
\* keep the other paths of the call from being removed; and a second call
\* on the same paths leaves the files unchanged.
CleanupNeverRaises ==
    call.made =>
        /\ ~call.raised
        /\ \A p \in Args : p \notin locked => p \notin fs
        /\ fs = call.before \ (Args \ locked)
        /\ call.repeated => fs = call.before

CleanupSkipsUndeletable ==
    /\ call.made
    /\ Len(call.paths) = 2
    /\ call.paths[1] \in locked \cap call.before
    /\ call.paths[2] \in call.before \ locked
    /\ call.paths[2] \notin fs
    /\ call.paths[1] \in fs

\* the candidates of the executable locator that exist, in order of
\* precedence: the environment override, the search-path hits for
\* libreoffice and soffice, the two fixed install locations
ExistingExecutables(e, h) ==
    LET override == IF e.LIBREOFFICE_BIN # None /\ Len(e.LIBREOFFICE_BIN) > 0
                    THEN e.LIBREOFFICE_BIN ELSE e.LIBREOFFICE_PATH
    IN  << IF override \in h.disk THEN override ELSE None,
           h.which.libreoffice,
           h.which.soffice,
           IF MAC_DEFAULT \in h.disk THEN MAC_DEFAULT ELSE None,
           IF MAC_ALT \in h.disk THEN MAC_ALT ELSE None >>

NoneExists(seq) == \A i \in 1..Len(seq) : seq[i] = None \/ Len(seq[i]) = 0

\* the executable a conversion uses under environment e, None when no
\* candidate exists
ExecutableUnder(e, h) ==
    IF NoneExists(ExistingExecutables(e, h)) THEN None
    ELSE FirstNonEmpty(ExistingExecutables(e, h))

\* the destination request r resolves under environment e
DestinationUnder(r, e) ==
    FirstNonEmpty(<<rq[r].parser_url, rq[r].x_parser_url, e.PARSER_URL, e.PARSE_URL,
                    DEFAULT_PARSER_URL>>)

\* C14 as stated: the environment is read once at process start, so every
\* request resolves its destination and its executable from the startup
\* environment whatever the environment holds later.
EnvironmentReadOnceAtStart ==
    \A r \in Reqs :
        /\ loc[r].target_url # None => loc[r].target_url = DestinationUnder(r, StartupEnv)
        /\ loc[r].exe # None => loc[r].exe = ExecutableUnder(StartupEnv, host)

\* C14 amended: the environment is read each time it is needed: a request
\* resolves its destination from the environment as it is when the request
\* resolves it, and a conversion locates the executable from the environment
\* as it is when the converter is called.
EnvironmentReadAtEachUse ==
    [][\A r \in Reqs :
          /\ (pc[r] = "converted" /\ pc'[r] = "resolved") =>
                 loc'[r].target_url =
                     FirstNonEmpty(<<rq'[r].parser_url, rq'[r].x_parser_url,
                                     env.PARSER_URL, env.PARSE_URL, DEFAULT_PARSER_URL>>)
          /\ (pc[r] = "converting" /\ pc'[r] = "conv_exit") =>
                 loc'[r].exe = ExecutableUnder(env, host)]_vars

ChangedEnvironmentUsed ==
    \E r \in Reqs :
        /\ loc[r].exe = ALT_BIN
        /\ loc[r].target_url = URL_E1
        /\ Len(posts[r]) >= 1
        /\ posts[r][1].url = URL_E1

Failed(r) == pc[r] = "done" /\ out[r].kind = "error"

\* the caller's input is at fault: no file name or a wrong extension, a
\* destination URL without an http(s) scheme, a parser_query_ key without a
\* field name
InputFault(r) ==
    \/ "file" \in rq[r].read /\ NotASlideDeck(rq[r].filename)
    \/ "url" \in rq[r].read /\ ~GoodScheme(FirstNonEmpty(Candidates(r)))
    \/ "query" \in rq[r].read /\ \E kv \in Prefixed(rq[r].items) : kv[1] = PARSER_QUERY_PREFIX

\* the service's own work failed: the upload could not be saved, no
\* executable was found, the converter exited non-zero, or it exited zero
\* without the expected PDF
LocalFault(r) ==
    \/ loc[r].save \in {"open_failed", "copy_failed"}
    \/ loc[r].conv.exc # "" /\ loc[r].exe = None
    \/ loc[r].exe # None /\ loc[r].run.exit # 0
    \/ loc[r].exe # None /\ loc[r].run.exit = 0 /\ loc[r].conv.exc # ""

\* the downstream call failed: a POST raised, or the answer to relay is not JSON
DownstreamFault(r) ==
    \/ loc[r].resp.err
    \/ loc[r].resp2.err
    \/ HasSelected(r) /\ ~loc[r].sel.body.json

\* C15: every failed request is answered with the status class of its
\* failure kind: an input fault with a 4xx, a save or conversion fault with
\* a 5xx other than 502, a downstream fault with 502; every failure is of one
\* of these kinds, and a finished request with a fault has failed.
StatusClassPerFailureKind ==
    \A r \in Reqs :
        /\ Failed(r) =>
              /\ InputFault(r) \/ LocalFault(r) \/ DownstreamFault(r)
              /\ InputFault(r) => (400 <= out[r].status /\ out[r].status < 500)
              /\ LocalFault(r) =>
                     (500 <= out[r].status /\ out[r].status < 600 /\ out[r].status # 502)
              /\ DownstreamFault(r) => out[r].status = 502
        /\ (pc[r] = "done" /\ (InputFault(r) \/ LocalFault(r) \/ DownstreamFault(r)))
               => Failed(r)

NonZeroExitAnsweredAsServerError ==
    \E r \in Reqs :
        /\ Failed(r)
        /\ loc[r].exe # None
        /\ loc[r].run.exit # 0
        /\ out[r].status = 500
        /\ ~InputFault(r)
        /\ ~DownstreamFault(r)

\* the converter of request r has come back: it located an executable and
\* its subprocess has ended
ConverterRan(r) == loc[r].exe # None /\ pc[r] \notin {"idle", "validated", "stored", "converting"}

\* C16: a conversion returns only OUTPUT_DIR/<stem of the stored upload>.pdf,
\* and only when the subprocess exited with zero and that file exists; a
\* non-zero exit raises the conversion error, a zero exit without the file
\* raises the not-found error; the PDF a handler goes on with is named by the
\* request's generated stem followed by .pdf.
ConversionReturnsExpectedPdf ==
    \A r \in Reqs :
        /\ ConverterRan(r) =>
              /\ loc[r].conv.ok =>
                     /\ loc[r].run.exit = 0
                     /\ loc[r].run.wrote
                     /\ loc[r].conv.path.dir = OUTPUT_DIR
                     /\ loc[r].conv.path.stem = loc[r].input_path.stem
                     /\ loc[r].conv.path.ext = <<".", "p", "d", "f">>
                     /\ loc[r].conv.path \in created[r]
                     /\ pc[r] = "conv_exit" => loc[r].conv.path \in fs
              /\ loc[r].run.exit # 0 =>
                     ~loc[r].conv.ok /\ loc[r].conv.exc = "CalledProcessError"
              /\ (loc[r].run.exit = 0 /\ ~loc[r].run.wrote) =>
                     ~loc[r].conv.ok /\ loc[r].conv.exc = "FileNotFoundError"
        /\ loc[r].pdf_path # NoPath =>
              /\ loc[r].conv.ok
              /\ loc[r].pdf_path = loc[r].conv.path
              /\ loc[r].pdf_path.stem \in used

ConvertedPdfNamedByStem ==
    \E r \in Reqs :
        /\ pc[r] = "converted"
        /\ loc[r].run = [exit |-> 0, wrote |-> TRUE]
        /\ loc[r].pdf_path = [dir |-> OUTPUT_DIR, stem |-> loc[r].input_path.stem,
                              ext |-> EXT_PDF]
        /\ loc[r].pdf_path \in fs

ConverterCalled(r) == pc[r] \notin {"idle", "validated", "stored", "converting"} /\ loc[r].save = "ok"

\* C17: the locator returns the first existing candidate in the order
\* override (only if on disk), search-path hit for libreoffice, for soffice,
\* first fixed location, second fixed location; it raises not-found exactly
\* when no candidate exists, and then nothing was run or written.
LocatorReturnsFirstExisting ==
    \A r \in Reqs :
        ConverterCalled(r) =>
            LET c == ExistingExecutables(env, host)
            IN  IF NoneExists(c)
                THEN /\ loc[r].exe = None
                     /\ loc[r].conv.exc = "FileNotFoundError"
                     /\ created[r] \subseteq {loc[r].input_path}
                ELSE /\ loc[r].exe # None
                     /\ \E k \in 1..Len(c) :
                            /\ loc[r].exe = c[k]
                            /\ c[k] \in host.disk
                            /\ \A j \in 1..(k-1) : c[j] = None

MissingOverrideSkipped ==
    \E r \in Reqs :
        /\ ConverterCalled(r)
        /\ env.LIBREOFFICE_BIN = GONE_BIN
        /\ env.LIBREOFFICE_PATH = ALT_BIN
        /\ ALT_BIN \in host.disk
        /\ host.which.libreoffice = None
        /\ loc[r].exe = SO_BIN
        /\ loc[r].conv.ok

\* C18: a convert_and_parse request goes RECEIVED, VALIDATED, STORED,
\* CONVERTED, PROXIED, RELAYED in that order or fails: a request rejected for
\* its input (file, extension, destination URL, parser_query_ parameter) was
\* rejected before anything was stored or converted; the converter is
\* invoked only on a stored upload; a POST is sent only after a successful
\* conversion; a response is relayed only after a downstream answer.
StatesInOrder ==
    \A r \in Reqs :
        IsAsyncConvert(r) =>
            /\ (Failed(r) /\ InputFault(r)) =>
                   /\ created[r] = {}
                   /\ loc[r].input_path = NoPath
                   /\ loc[r].conv = NoLoc.conv
            /\ pc[r] \in {"converting", "conv_exit", "converted"} =>
                   /\ loc[r].save = "ok"
                   /\ loc[r].input_path \in created[r]
            /\ posts[r] # <<>> => loc[r].conv.ok
            /\ out[r].kind = "json" => (HasSelected(r) /\ posts[r] # <<>>)

TransportFailed(r) ==
    \/ loc[r].resp.err /\ pc[r] # "got1"
    \/ loc[r].resp2.err /\ loc[r].resp.status >= 400 /\ pc[r] # "got2"

\* C19: when the first POST, or the fallback POST after a first answer of
\* status >= 400, raises a transport error, the request ends with 502, no
\* downstream answer is relayed, the upload and the PDF are both removed
\* before the error is returned, and no deferred cleanup is registered.
TransportErrorIsGatewayError ==
    \A r \in Reqs :
        TransportFailed(r) =>
            /\ pc[r] = "done"
            /\ out[r].kind = "error"
            /\ out[r].status = 502
            /\ out[r].payload = NoPayload
            /\ ~HasSelected(r)
            /\ loc[r].input_path \notin fs
            /\ loc[r].pdf_path \notin fs
            /\ \A p \in {loc[r].input_path, loc[r].pdf_path} :
                   \E x \in removals : x.path = p /\ x.req = r /\ x.step = "on_error"
            /\ bg[r] = <<>>

FallbackTransportErrorCleansBoth ==
    \E r \in Reqs :
        /\ loc[r].resp.status = 400
        /\ loc[r].resp.body.json
        /\ loc[r].resp2.err
        /\ Len(posts[r]) = 2
        /\ pc[r] = "done"
        /\ out[r].status = 502
        /\ created[r] \cap fs = {}

====
